---- MODULE Spec2Model ----
(***************************************************************************)
(* A model of the film (pixel buffer) of src/film/film.rs and of the 4x4   *)
(* matrix of src/math/matrix4.rs.                                          *)
(*                                                                         *)
(* f32 values that the film computes are modelled bit-exactly as records   *)
(* [m, e] standing for m * 2^e with a 24 bit significand, rounded to       *)
(* nearest, ties to even (IEEE 754 binary32; all values met here are       *)
(* non-negative and far from the exponent limits).                         *)
(***************************************************************************)
EXTENDS Integers, Sequences, FiniteSets, TLC

\* ------------------------------------------------------------------ bounds
MaxWidth == 3
MaxHeight == 2
MaxWrites == 2
\* Vector coordinates range over -MaxCoord..MaxCoord.
MaxCoord == 1
\* How many dense matrices are drawn besides the built ones.
MaxSeed == 3
NumWorkers == 2
\* Calls of the uv closure each worker makes.
MaxCalls == 2

\* The significand width of f32, the type of every float in both files.
MantissaBits == 24

\* ------------------------------------------------------------ f32 arithmetic
RECURSIVE BitLen(_)
BitLen(n) == IF n = 0 THEN 0 ELSE 1 + BitLen(n \div 2)

Min(a, b) == IF a <= b THEN a ELSE b

F32Zero == [m |-> 0, e |-> 0]

\* The f32 nearest to n * 2^e (+ a non-zero fraction of 2^e below one unit
\* when sticky), ties to even.
F32Round(n, e, sticky) ==
  IF n = 0 THEN F32Zero
  ELSE LET b == BitLen(n) IN
    IF b <= MantissaBits
    THEN [m |-> n * 2^(MantissaBits - b), e |-> e - (MantissaBits - b)]
    ELSE LET k    == b - MantissaBits
             q    == n \div 2^k
             r    == n % 2^k
             half == 2^(k - 1)
             up   == \/ r > half
                     \/ r = half /\ sticky
                     \/ r = half /\ ~sticky /\ q % 2 = 1
             m    == IF up THEN q + 1 ELSE q
         IN IF m = 2^MantissaBits
            THEN [m |-> 2^(MantissaBits - 1), e |-> e + k + 1]
            ELSE [m |-> m, e |-> e + k]

\* `n as f32` for a usize n.
F32FromUsize(n) == F32Round(n, 0, FALSE)

\* The f32 k / 2^24: the values in [0, 1) a uniform f32 draw takes.
F32FromJitter(k) == F32Round(k, 0 - MantissaBits, FALSE)

\* a + b in f32: the exact sum rounded once.  The smaller operand is aligned
\* below six guard bits of the larger, the rest kept as the sticky bit.
F32Add(a, b) ==
  IF a.m = 0 THEN b
  ELSE IF b.m = 0 THEN a
  ELSE LET hi == IF a.e >= b.e THEN a ELSE b
           lo == IF a.e >= b.e THEN b ELSE a
           d  == hi.e - lo.e
       IN IF d <= 6
          THEN F32Round(hi.m * 2^d + lo.m, lo.e, FALSE)
          ELSE LET s == Min(d - 6, MantissaBits + 1)
               IN F32Round(hi.m * 64 + (lo.m \div 2^s), hi.e - 6, lo.m % 2^s # 0)

RECURSIVE LongDiv(_, _, _, _)
LongDiv(r, d, n, q) ==
  IF n = 0 THEN <<q, r>>
  ELSE IF 2 * r >= d THEN LongDiv(2 * r - d, d, n - 1, 2 * q + 1)
                     ELSE LongDiv(2 * r, d, n - 1, 2 * q)

\* a / b in f32 (b # 0): the exact quotient rounded once.
F32Div(a, b) ==
  IF a.m = 0 THEN F32Zero
  ELSE LET qr == LongDiv(a.m % b.m, b.m, MantissaBits + 1, a.m \div b.m)
       IN F32Round(qr[1], a.e - b.e - (MantissaBits + 1), qr[2] # 0)

\* The sign of f - a/b for an f32 f < 2^24 and naturals a, b with 0 < b <= 128:
\* -1, 0 or 1.  Compares f.m * b with a * 2^(-f.e) without leaving 31 bits.
F32CmpRat(f, a, b) ==
  IF f.m = 0 THEN (IF a = 0 THEN 0 ELSE -1)
  ELSE IF a = 0 THEN 1
  ELSE LET k == 0 - f.e IN
    IF k >= 31 \/ a >= 2^(31 - k) THEN -1
    ELSE IF f.m * b < a * 2^k THEN -1
    ELSE IF f.m * b = a * 2^k THEN 0 ELSE 1

\* --------------------------------------------------------------- the film
\* A sample is a Vector3 of f32 components; a component is named by its text.
FiniteSample == <<"0.5", "0.5", "0.5">>
NanSample == <<"NaN", "0.5", "0.5">>
InfSample == <<"0.5", "inf", "0.5">>
Samples == {FiniteSample, NanSample, InfSample}

\* Numerators k of the jitter values k / 2^24 drawn in the model: the least,
\* the middle and the two greatest values of a uniform draw from [0, 1).
JitterSamples == {0, 2^(MantissaBits - 1), 2^MantissaBits - 2, 2^MantissaBits - 1}

VARIABLES
  width, height, data,   \* the Film
  fill,                  \* the fill value the film was created with
  debug_assertions,      \* whether the build keeps debug_assert!
  writes,                \* how many samples the renderer has written
  op, args, ret,         \* the call in hand ("idle": none), its arguments and its result
  halted,                \* "no", or the panic message that stopped the program
  rng,                   \* each worker thread's generator state (thread local RNG)
  seed,                  \* the state each worker's generator started from
  pc,                    \* where each worker is in the uv closure
  draws,                 \* each worker's draws so far, in order
  coords                 \* each worker's returned coordinates, in order

filmVars == <<width, height, data, fill, debug_assertions, writes>>
callVars == <<op, args, ret, halted>>
workerVars == <<rng, seed, pc, draws, coords>>
vars == <<filmVars, callVars, workerVars>>

Workers == 1..NumWorkers

\* vec![fill; n]
VecRepeat(f, n) == [i \in 1..n |-> f]

\* A film whose buffer is height * height long.
FilmNewSquare(f, w, h) == [data |-> VecRepeat(f, h * h), width |-> w, height |-> h]

FilmNew(f, w, h) == [data |-> VecRepeat(f, h * w), width |-> w, height |-> h]

\* The closure uv() returns, applied to index with the two draws su, sv.
UvClosure(w, h, index, su, sv) ==
  LET x == index % w
      y == h - (index \div w) - 1
  IN [u |-> F32Div(F32Add(F32FromUsize(x), su), F32FromUsize(w)),
      v |-> F32Div(F32Add(F32FromUsize(y), sv), F32FromUsize(h))]

Init ==
  \E f \in Samples, w \in 1..MaxWidth, h \in 1..MaxHeight :
    LET film == FilmNew(f, w, h) IN
      /\ width = film.width
      /\ height = film.height
      /\ data = film.data
      /\ fill = f
      /\ debug_assertions \in BOOLEAN
      /\ writes = 0
      /\ op = "new"
      /\ args = [fill |-> f, width |-> w, height |-> h]
      /\ ret = [none |-> TRUE]
      /\ halted = "no"
      /\ rng = [t \in Workers |-> 0]
      /\ seed = [t \in Workers |-> 0]
      /\ pc = [t \in Workers |-> "idle"]
      /\ draws = [t \in Workers |-> <<>>]
      /\ coords = [t \in Workers |-> <<>>]

\* Vector3::is_nan and Vector3::is_infinite: of any component.
IsNan(v) == \E c \in 1..3 : v[c] = "NaN"
IsInfinite(v) == \E c \in 1..3 : v[c] = "inf"

\* A get that checks the column against the width.
FilmGetChecked(d, w, x, y) ==
  LET i == y * w + x
  IN IF x < w /\ i < Len(d) THEN [ok |-> TRUE, cell |-> i, value |-> d[i + 1]]
                            ELSE [ok |-> FALSE, cell |-> i, value |-> <<>>]

\* get(x, y): the cell &self.data[y * width + x], or the index panic of Vec.
FilmGet(d, w, x, y) ==
  LET i == y * w + x
  IN IF i < Len(d) THEN [ok |-> TRUE, cell |-> i, value |-> d[i + 1]]
                   ELSE [ok |-> FALSE, cell |-> i, value |-> <<>>]

FilmAspect(w, h) == F32Div(F32FromUsize(w), F32FromUsize(h))

\* A validate that looks for NaN only.
FilmValidateNanOnly(d, dbg) ==
  IF dbg /\ (\E i \in 1..Len(d) : IsNan(d[i])) THEN "nan" ELSE "no"

\* validate(): the message of the debug_assert! that fails, "no" when none does.
FilmValidate(d, dbg) ==
  IF dbg /\ (\E i \in 1..Len(d) : IsNan(d[i])) THEN "nan"
  ELSE IF dbg /\ (\E i \in 1..Len(d) : IsInfinite(d[i])) THEN "infinite"
  ELSE "no"

Uv ==
  /\ halted = "no"
  /\ op = "idle"
  /\ \E index \in 0..(width * height - 1), ku \in JitterSamples, kv \in JitterSamples :
       /\ op' = "uv"
       /\ args' = [index |-> index, ku |-> ku, kv |-> kv]
       /\ ret' = UvClosure(width, height, index, F32FromJitter(ku), F32FromJitter(kv))
  /\ UNCHANGED <<filmVars, halted, workerVars>>

Get ==
  /\ halted = "no"
  /\ op = "idle"
  /\ \E x \in 0..MaxWidth, y \in 0..MaxHeight :
       LET r == FilmGet(data, width, x, y) IN
         /\ op' = "get"
         /\ args' = [x |-> x, y |-> y]
         /\ ret' = r
         /\ halted' = IF r.ok THEN "no" ELSE "index out of bounds"
  /\ UNCHANGED <<filmVars, workerVars>>

Aspect ==
  /\ halted = "no"
  /\ op = "idle"
  /\ op' = "aspect"
  /\ args' = [none |-> TRUE]
  /\ ret' = [aspect |-> FilmAspect(width, height)]
  /\ UNCHANGED <<filmVars, halted, workerVars>>

\* A validate that removes the samples it finds bad.
ValidateDroppingBad ==
  /\ halted = "no"
  /\ op = "idle"
  /\ op' = "validate"
  /\ args' = [none |-> TRUE]
  /\ ret' = [none |-> TRUE]
  /\ data' = SelectSeq(data, LAMBDA v : ~IsNan(v) /\ ~IsInfinite(v))
  /\ UNCHANGED <<width, height, fill, debug_assertions, writes, halted, workerVars>>

Validate ==
  /\ halted = "no"
  /\ op = "idle"
  /\ op' = "validate"
  /\ args' = [none |-> TRUE]
  /\ ret' = [none |-> TRUE]
  /\ halted' = FilmValidate(data, debug_assertions)
  /\ UNCHANGED <<filmVars, workerVars>>

\* The renderer stores its next sample, in index order, through the public
\* field data.
Write ==
  /\ halted = "no"
  /\ op = "idle"
  /\ writes < MaxWrites
  /\ writes < Len(data)
  /\ \E s \in Samples :
       /\ data' = [data EXCEPT ![writes + 1] = s]
       /\ args' = [index |-> writes, sample |-> s]
  /\ op' = "write"
  /\ ret' = [none |-> TRUE]
  /\ writes' = writes + 1
  /\ UNCHANGED <<width, height, fill, debug_assertions, halted, workerVars>>

\* The caller is done with the result of the call in hand.
Return ==
  /\ halted = "no"
  /\ op # "idle"
  /\ op' = "idle"
  /\ args' = [none |-> TRUE]
  /\ ret' = [none |-> TRUE]
  /\ UNCHANGED <<filmVars, halted, workerVars>>

Next == Uv \/ Get \/ Aspect \/ Validate \/ Write \/ Return

Spec == Init /\ [][Next]_vars

\* ------------------------------------------------------------- the matrix
\* A Matrix4 is its array v of 16 entries, row-major; v[i] of the code is
\* m[i + 1] here.  Entries are small integers, which f32 holds and adds and
\* multiplies exactly.  A Vector3 is <<x, y, z>>, a Vector4 <<x, y, z, w>>.
MatrixNew(array) == array

MatrixZero == MatrixNew([i \in 1..16 |-> 0])

MatrixUnit == MatrixNew(<<1, 0, 0, 0,  0, 1, 0, 0,  0, 0, 1, 0,  0, 0, 0, 1>>)

\* A translation that stores v in the last row.
MatrixTranslateInLastRow(v) ==
  MatrixNew(<<1, 0, 0, 0,  0, 1, 0, 0,  0, 0, 1, 0,  v[1], v[2], v[3], 1>>)

MatrixTranslate(v) ==
  MatrixNew(<<1, 0, 0, v[1],  0, 1, 0, v[2],  0, 0, 1, v[3],  0, 0, 0, 1>>)

MatrixScale(v) ==
  MatrixNew(<<v[1], 0, 0, 0,  0, v[2], 0, 0,  0, 0, v[3], 0,  0, 0, 0, 1>>)

\* From<[Vector3; 3]>: the three vectors as the columns of the upper 3x3.
MatrixFromBasis(b) ==
  MatrixNew(<<b[1][1], b[2][1], b[3][1], 0,
              b[1][2], b[2][2], b[3][2], 0,
              b[1][3], b[2][3], b[3][3], 0,
              0, 0, 0, 1>>)

\* (0..4).map(f).sum(): the terms added in order, from zero.
RECURSIVE SumTo(_, _)
SumTo(f, n) == IF n = 0 THEN 0 ELSE SumTo(f, n - 1) + f[n - 1]

\* A product that takes its operands in the other order.
MatrixMulSwapped(a, b) ==
  [i \in 1..16 |->
     LET x == (i - 1) % 4
         y == (i - 1) \div 4
     IN SumTo([j \in 0..3 |-> b[y * 4 + j + 1] * a[j * 4 + x + 1]], 4)]

\* Mul for &Matrix4
MatrixMul(a, b) ==
  [i \in 1..16 |->
     LET x == (i - 1) % 4
         y == (i - 1) \div 4
     IN SumTo([j \in 0..3 |-> a[y * 4 + j + 1] * b[j * 4 + x + 1]], 4)]

\* A transpose that reads the entry it writes.
MatrixTransposeSameIndex(m) ==
  [i \in 1..16 |->
     LET x == (i - 1) % 4
         y == (i - 1) \div 4
     IN m[y * 4 + x + 1]]

MatrixTranspose(m) ==
  [i \in 1..16 |->
     LET x == (i - 1) % 4
         y == (i - 1) \div 4
     IN m[x * 4 + y + 1]]

\* The vector types' side of the matrix: lift with w = 1, drop w, dot, and
\* the Vector3 operations look_at uses.
Vec4FromVec3(v) == <<v[1], v[2], v[3], 1>>
Vec3FromVec4(v) == <<v[1], v[2], v[3]>>
Dot4(a, b) == a[1] * b[1] + a[2] * b[2] + a[3] * b[3] + a[4] * b[4]
Sub3(a, b) == <<a[1] - b[1], a[2] - b[2], a[3] - b[3]>>
Neg3(a) == <<0 - a[1], 0 - a[2], 0 - a[3]>>
Cross(a, b) ==
  <<a[2] * b[3] - a[3] * b[2], a[3] * b[1] - a[1] * b[3], a[1] * b[2] - a[2] * b[1]>>
SqrNorm(a) == a[1] * a[1] + a[2] * a[2] + a[3] * a[3]
ISqrt(n) == CHOOSE r \in 0..n : r * r <= n /\ (r + 1) * (r + 1) > n
\* normalize() is modelled where its result is exact: the length is a whole
\* number that divides every component.
Normalizable(a) ==
  LET r == ISqrt(SqrNorm(a))
  IN r > 0 /\ r * r = SqrNorm(a) /\ \A c \in 1..3 : a[c] % r = 0
Normalize(a) ==
  LET r == ISqrt(SqrNorm(a)) IN <<a[1] \div r, a[2] \div r, a[3] \div r>>

\* A map_col that takes the columns of v for its rows.
MapColByColumn(m, rhs_homo) ==
  [i \in 1..4 |->
     Dot4(<<m[0 * 4 + (i - 1) + 1], m[1 * 4 + (i - 1) + 1],
            m[2 * 4 + (i - 1) + 1], m[3 * 4 + (i - 1) + 1]>>, rhs_homo)]

\* map_col with the closure |row| row.dot(rhs_homo): the closure applied to
\* each of the four rows, as Vector4s.
MapCol(m, rhs_homo) ==
  [i \in 1..4 |->
     Dot4(<<m[(i - 1) * 4 + 0 + 1], m[(i - 1) * 4 + 1 + 1],
            m[(i - 1) * 4 + 2 + 1], m[(i - 1) * 4 + 3 + 1]>>, rhs_homo)]

\* Mul<Vector3> for &Matrix4
MatrixMulVec3(m, rhs) ==
  LET rhs_homo == Vec4FromVec3(rhs)
      out == MapCol(m, rhs_homo)
  IN Vec3FromVec4(out)

LookAt(origin, target, up) ==
  LET za == Neg3(Normalize(Sub3(target, origin)))
      xa == Normalize(Cross(up, za))
      ya == Cross(za, xa)
  IN MatrixMul(MatrixTranslate(origin), MatrixFromBasis(<<xa, ya, za>>))

\* The inputs drawn.
Coords == (0 - MaxCoord)..MaxCoord
Vec3s == {<<x, y, z>> : x \in Coords, y \in Coords, z \in Coords}
Dense(k) == MatrixNew([i \in 1..16 |-> ((i * i * k + i) % 5) - 2])
Mats ==
  {MatrixUnit, MatrixTranslate(<<1, 2, -1>>), MatrixScale(<<2, 1, -1>>),
   MatrixFromBasis(<<(<<0, 1, 0>>), (<<0, 0, 1>>), (<<1, 0, 0>>)>>)}
  \cup {Dense(k) : k \in 1..MaxSeed}

InitMatrix ==
  LET film == FilmNew(FiniteSample, 1, 1) IN
    /\ width = film.width
    /\ height = film.height
    /\ data = film.data
    /\ fill = FiniteSample
    /\ debug_assertions = TRUE
    /\ writes = 0
    /\ op = "idle"
    /\ args = [none |-> TRUE]
    /\ ret = [none |-> TRUE]
    /\ halted = "no"
    /\ rng = [t \in Workers |-> 0]
    /\ seed = [t \in Workers |-> 0]
    /\ pc = [t \in Workers |-> "idle"]
    /\ draws = [t \in Workers |-> <<>>]
    /\ coords = [t \in Workers |-> <<>>]

Transpose ==
  /\ op = "idle"
  /\ \E m \in Mats :
       /\ args' = [m |-> m]
       /\ ret' = [t |-> MatrixTranspose(m), tt |-> MatrixTranspose(MatrixTranspose(m))]
  /\ op' = "transpose"
  /\ UNCHANGED <<filmVars, halted, workerVars>>

Mul ==
  /\ op = "idle"
  /\ \E a \in Mats, b \in Mats, c \in Mats :
       /\ args' = [a |-> a, b |-> b, c |-> c]
       /\ ret' = [ab |-> MatrixMul(a, b),
                  ab_c |-> MatrixMul(MatrixMul(a, b), c),
                  a_bc |-> MatrixMul(a, MatrixMul(b, c))]
  /\ op' = "mul"
  /\ UNCHANGED <<filmVars, halted, workerVars>>

MulVec3 ==
  /\ op = "idle"
  /\ \E m \in Mats, p \in Vec3s :
       /\ args' = [m |-> m, p |-> p]
       /\ ret' = [out |-> MatrixMulVec3(m, p)]
  /\ op' = "mul_vec3"
  /\ UNCHANGED <<filmVars, halted, workerVars>>

\* look_at, then the matrix applied to the origin and to the zero point.
\* The caller keeps the contract: target # origin, up not parallel to
\* target - origin.
LookAtCall ==
  /\ op = "idle"
  /\ \E origin \in Vec3s, target \in Vec3s, up \in Vec3s :
       /\ target # origin
       /\ Normalizable(Sub3(target, origin))
       /\ Cross(up, Sub3(target, origin)) # <<0, 0, 0>>
       /\ Normalizable(Cross(up, Neg3(Normalize(Sub3(target, origin)))))
       /\ args' = [origin |-> origin, target |-> target, up |-> up]
       /\ LET m == LookAt(origin, target, up) IN
            ret' = [m |-> m,
                    at_origin |-> MatrixMulVec3(m, origin),
                    at_zero |-> MatrixMulVec3(m, <<0, 0, 0>>)]
  /\ op' = "look_at"
  /\ UNCHANGED <<filmVars, halted, workerVars>>

NextMatrix == Transpose \/ Mul \/ MulVec3 \/ LookAtCall \/ Return

SpecMatrix == InitMatrix /\ [][NextMatrix]_vars

\* ------------------------------------------------- workers calling uv's closure
\* One step of a worker's generator: the state after a draw, which is also
\* the numerator k of the value k / 2^24 drawn.
RngNext(s) == (s * 5 + 3) % 2^MantissaBits

SeedSamples == {0, 1, 2^(MantissaBits - 1) + 1}

\* One generator that every worker reaches.
RngSlotShared(t) == 1

\* RNG.with: the generator a call made by worker t reaches, its thread's own.
RngSlot(t) == t

\* The pixel worker t samples in its call number k (from 0): the workers
\* share the film out in strides.
PixelOf(t, k) == (k * NumWorkers + (t - 1)) % (width * height)

InitWorkers ==
  LET film == FilmNew(FiniteSample, MaxWidth, MaxHeight) IN
    /\ width = film.width
    /\ height = film.height
    /\ data = film.data
    /\ fill = FiniteSample
    /\ debug_assertions = TRUE
    /\ writes = 0
    /\ op = "idle"
    /\ args = [none |-> TRUE]
    /\ ret = [none |-> TRUE]
    /\ halted = "no"
    /\ seed \in [Workers -> SeedSamples]
    /\ rng = seed
    /\ pc = [t \in Workers |-> "idle"]
    /\ draws = [t \in Workers |-> <<>>]
    /\ coords = [t \in Workers |-> <<>>]

\* Worker t calls the closure: x and y are computed from the index.
Call(t) ==
  /\ pc[t] = "idle"
  /\ Len(coords[t]) < MaxCalls
  /\ pc' = [pc EXCEPT ![t] = "su"]
  /\ UNCHANGED <<filmVars, callVars, rng, seed, draws, coords>>

\* let su = rng.borrow_mut().gen::<f32>();
GenSu(t) ==
  /\ pc[t] = "su"
  /\ LET k == RngNext(rng[RngSlot(t)]) IN
       /\ rng' = [rng EXCEPT ![RngSlot(t)] = k]
       /\ draws' = [draws EXCEPT ![t] = Append(@, k)]
  /\ pc' = [pc EXCEPT ![t] = "sv"]
  /\ UNCHANGED <<filmVars, callVars, seed, coords>>

\* let sv = rng.borrow_mut().gen::<f32>(); and the coordinate is returned.
GenSv(t) ==
  /\ pc[t] = "sv"
  /\ LET k == RngNext(rng[RngSlot(t)])
         su == draws[t][Len(draws[t])]
     IN
       /\ rng' = [rng EXCEPT ![RngSlot(t)] = k]
       /\ draws' = [draws EXCEPT ![t] = Append(@, k)]
       /\ coords' = [coords EXCEPT ![t] =
            Append(@, UvClosure(width, height, PixelOf(t, Len(coords[t])),
                                F32FromJitter(su), F32FromJitter(k)))]
  /\ pc' = [pc EXCEPT ![t] = "idle"]
  /\ UNCHANGED <<filmVars, callVars, seed>>

NextWorkers == \E t \in Workers : Call(t) \/ GenSu(t) \/ GenSv(t)

SpecWorkers == InitWorkers /\ [][NextWorkers]_vars

\* ---------------------------------------------------------------- claims
HasBadSample(d) == \E i \in 1..Len(d) : IsNan(d[i]) \/ IsInfinite(d[i])

\* C1: for every valid index and every pair of jitter values in [0, 1), the
\* coordinate the closure returns stays in the pixel's cell:
\* x/width <= u < (x+1)/width and (height-y-1)/height <= v < (height-y)/height
\* with x = index % width, y = index / width.
C1_JitterStaysInCell ==
  op = "uv" =>
    LET x == args.index % width
        y == args.index \div width
    IN /\ F32CmpRat(ret.u, x, width) >= 0
       /\ F32CmpRat(ret.u, x + 1, width) < 0
       /\ F32CmpRat(ret.v, height - y - 1, height) >= 0
       /\ F32CmpRat(ret.v, height - y, height) < 0

\* C2: a new film holds exactly width * height elements, each the fill
\* value, and get(x, y) returns the fill value for every x < width, y < height.
C2_NewFillsEveryCell ==
  writes = 0 =>
    /\ Len(data) = width * height
    /\ \A i \in 1..Len(data) : data[i] = fill
    /\ (op = "get" /\ args.x < width /\ args.y < height) => (ret.ok /\ ret.value = fill)

C2_Witness ==
  /\ op = "get" /\ writes = 0
  /\ width > 1 /\ height > 1
  /\ args.x = width - 1 /\ args.y = height - 1
  /\ ret.ok /\ ret.value = fill

\* C3, as claimed: look_at(o, t, up) applied to the point o returns o.
C3_LookAtFixesOrigin == op = "look_at" => ret.at_origin = args.origin

\* C3, amended: look_at(o, t, up) applied to the zero point (0, 0, 0)
\* returns o.
C3_LookAtMovesZeroToOrigin == op = "look_at" => ret.at_zero = args.origin

C3_Witness ==
  /\ op = "look_at"
  /\ args.origin # <<0, 0, 0>>
  /\ ret.m # MatrixTranslate(args.origin)
  /\ ret.at_zero = args.origin
  /\ ret.at_origin # args.origin

\* C4: M * p has as component i the value M[i][0]*x + M[i][1]*y + M[i][2]*z
\* + M[i][3], for i in 0..2, with no division by the fourth component, so it
\* does not depend on the last row of M.
C4_MulVec3IsAffine ==
  op = "mul_vec3" =>
    LET m == args.m
        p == args.p
    IN /\ \A i \in 0..2 :
            ret.out[i + 1] = m[i * 4 + 1] * p[1] + m[i * 4 + 2] * p[2]
                               + m[i * 4 + 3] * p[3] + m[i * 4 + 4]
       /\ Len(ret.out) = 3
       /\ \A n \in Mats :
            MatrixMulVec3([i \in 1..16 |-> IF i <= 12 THEN m[i] ELSE n[i]], p) = ret.out

C4_Witness ==
  /\ op = "mul_vec3"
  /\ <<args.m[13], args.m[14], args.m[15], args.m[16]>> # <<0, 0, 0, 1>>
  /\ Dot4(<<args.m[13], args.m[14], args.m[15], args.m[16]>>, Vec4FromVec3(args.p)) \notin {0, 1}
  /\ ret.out # args.p

RECURSIVE RngAfter(_, _)
RngAfter(s, n) == IF n = 0 THEN s ELSE RngNext(RngAfter(s, n - 1))

\* C5: under every interleaving each worker draws from its own generator:
\* its draws, its generator's state and its coordinates are those it would
\* get running alone from the same initial generator state.
C5_WorkersDrawAlone ==
  \A t \in Workers :
    /\ draws[t] = [k \in 1..Len(draws[t]) |-> RngAfter(seed[t], k)]
    /\ rng[t] = RngAfter(seed[t], Len(draws[t]))
    /\ coords[t] = [k \in 1..Len(coords[t]) |->
                      UvClosure(width, height, PixelOf(t, k - 1),
                                F32FromJitter(RngAfter(seed[t], 2 * k - 1)),
                                F32FromJitter(RngAfter(seed[t], 2 * k)))]

C5_Witness ==
  /\ pc[1] = "sv" /\ pc[2] = "sv"
  /\ Len(coords[1]) >= 1 /\ Len(coords[2]) >= 1
  /\ seed[1] = seed[2]

\* C6, as claimed: validate() halts whenever a stored sample is NaN or
\* infinite, and returns normally, the film unchanged, when every one is finite.
C6_ValidateHaltsOnBadSample ==
  [][(op = "idle" /\ op' = "validate") =>
       /\ (halted' # "no") <=> HasBadSample(data)
       /\ ~HasBadSample(data) => filmVars' = filmVars]_vars

\* C6, amended: in a build that keeps debug assertions validate() halts
\* whenever a stored sample is NaN or infinite; otherwise (every sample
\* finite, or a build without debug assertions) it returns normally; the
\* film is unchanged either way.
C6_ValidateHaltsInDebugBuild ==
  [][(op = "idle" /\ op' = "validate") =>
       /\ (halted' # "no") <=> (debug_assertions /\ HasBadSample(data))
       /\ filmVars' = filmVars]_vars

C6_Witness ==
  /\ op = "validate"
  /\ halted = "infinite"
  /\ writes > 0
  /\ ~IsInfinite(fill)

\* C7: transpose() holds at row r, column c what M holds at row c, column r,
\* and transposing twice gives M back, entry for entry.
C7_TransposeSwapsAndInverts ==
  op = "transpose" =>
    /\ \A r \in 0..3, c \in 0..3 : ret.t[r * 4 + c + 1] = args.m[c * 4 + r + 1]
    /\ ret.tt = args.m

C7_Witness == op = "transpose" /\ ret.t # args.m

\* C8: the product has at row y, column x the sum over j of A[y][j] * B[j][x],
\* and (A * B) * C = A * (B * C), for matrices of bounded integer entries.
C8_MulIsRowByColumnAndAssociative ==
  op = "mul" =>
    /\ \A y \in 0..3, x \in 0..3 :
         ret.ab[y * 4 + x + 1] =
           args.a[y * 4 + 1] * args.b[x + 1] + args.a[y * 4 + 2] * args.b[4 + x + 1]
           + args.a[y * 4 + 3] * args.b[8 + x + 1] + args.a[y * 4 + 4] * args.b[12 + x + 1]
    /\ ret.ab_c = ret.a_bc

C8_Witness ==
  /\ op = "mul"
  /\ ret.ab # MatrixMul(args.b, args.a)
  /\ args.c \notin {MatrixUnit, args.a, args.b}
  /\ ret.ab_c # ret.ab

\* C9: after Film::new, get, aspect, the uv closure and validate leave width,
\* height and data unchanged, and len(data) = width * height in every state.
C9_FilmNeverResized ==
  [][/\ Len(data') = width' * height'
     /\ (op' \in {"get", "aspect", "uv", "validate"}) =>
          (width' = width /\ height' = height /\ data' = data)]_vars

C9_Witness ==
  /\ op = "validate"
  /\ halted = "no"
  /\ writes > 0
  /\ HasBadSample(data)

\* C10: get(x, y) fails only when y * width + x >= width * height; with
\* x >= width and the index in range it returns the cell of the pixel at
\* column (y * width + x) % width, row (y * width + x) / width.
C10_GetChecksOnlyTheLinearIndex ==
  op = "get" =>
    LET i == args.y * width + args.x
        col == i % width
        row == i \div width
    IN /\ ~ret.ok <=> i >= width * height
       /\ (halted # "no") <=> ~ret.ok
       /\ ret.ok => /\ ret.cell = row * width + col
                    /\ ret.value = data[row * width + col + 1]

C10_Witness ==
  /\ op = "get"
  /\ args.x >= width
  /\ ret.ok
  /\ ret.value # fill
  /\ ret.value # data[args.y * width + 1]
====
